---- MODULE Spec2Model ----
(***************************************************************************)
(* Model of package mtOpenGL (src/mtOpenGL.go): shader program             *)
(* construction, texture / framebuffer creation and mesh buffer packing.   *)
(* The GL driver is modelled by the objects it keeps alive, their          *)
(* parameters and the current bindings; every exported function is one     *)
(* action that performs the function's driver calls in source order.       *)
(***************************************************************************)
EXTENDS Integers, Sequences, FiniteSets, TLC

VARIABLES
    shaders,      \* live shader objects (created, DeleteShader not yet called)
    programs,     \* live program objects: name -> [attached, linked]
    call,         \* record of the last NewProgram / NewComputeProgram call
    textures,     \* texture objects: name -> parameters (0 is the default texture)
    texBinding,   \* texture bound to each texture target
    fbos,         \* framebuffer objects: name -> [color, depth]
    fboBinding,   \* framebufffer bound to GL_FRAMEBUFFER
    texCall,      \* record of the last texture / framebuffer call
    buffers,      \* live buffer objects
    vaos,         \* live vertex array objects: name -> [attrib0, element]
    glBinding,    \* ARRAY_BUFFER and vertex array bindings
    mb,           \* the caller's MeshBuffer
    meshCall      \* record of the last mesh buffer call

progVars == <<shaders, programs, call>>
texVars  == <<textures, texBinding, fbos, fboBinding, texCall>>
meshVars == <<buffers, vaos, glBinding, mb, meshCall>>
vars     == <<shaders, programs, call, textures, texBinding, fbos, fboBinding,
              texCall, buffers, vaos, glBinding, mb, meshCall>>

\* ------------------------------------------------------------------ bounds
\* names the driver can hand out for shader and program objects
MaxObj == 6
\* names the driver can hand out for texture objects
MaxTex == 2
\* names the driver can hand out for framebuffer objects
MaxFbo == 1
\* names the driver can hand out for buffer objects
MaxBuf == 3
\* names the driver can hand out for vertex array objects
MaxVao == 2
\* longest point slice passed to the mesh functions
MaxPoints == 3
\* longest index slice passed to GenerateBufferFromLines2D
MaxIndices == 2

\* ------------------------------------------------------- shader programs
\* The file system seen by readFile: one shader file exists; "" and
\* "missing.glsl" cannot be opened.
ShaderNames == {"", "shader.glsl", "missing.glsl"}
ExistingFiles == {"shader.glsl"}

\* os.Open fails -> ("", err); otherwise the file's content and nil
readFile(name) ==
    IF name \in ExistingFiles
    THEN [source |-> name, err |-> FALSE]
    ELSE [source |-> "", err |-> TRUE]

\* the driver names a new object with the smallest name not in use
FirstFree(free) == CHOOSE n \in free : \A m \in free : n <= m

\* glCreateShader / glCreateProgram: an unused name of the shared namespace
NewName(used) == FirstFree((1..MaxObj) \ used)

\* compileShader, the driver reporting COMPILE_STATUS status: the shader
\* object is created first; on FALSE the function returns (0, err) and the
\* object stays alive.
compileShader(source, status, used) ==
    LET shader == NewName(used) IN
    IF ~status
    THEN [shader |-> 0, created |-> shader, err |-> TRUE]
    ELSE [shader |-> shader, created |-> shader, err |-> FALSE]

useTessellationShaderOr(tc, te) == tc # "" \/ te # ""

useTessellationShader(tc, te) == tc # "" /\ te # ""

useGeometryShader(g) == g # ""

Stage(kind, name) == [kind |-> kind, name |-> name]

StagesOfNoFragment(v, g, tc, te, f) ==
    <<Stage("VERTEX", v)>>
    \o (IF useTessellationShader(tc, te)
        THEN <<Stage("TESS_CONTROL", tc), Stage("TESS_EVALUATION", te)>>
        ELSE <<>>)
    \o (IF useGeometryShader(g) THEN <<Stage("GEOMETRY", g)>> ELSE <<>>)

\* The stages NewProgram reads, compiles, attaches and deletes, in the
\* order of the source: vertex, tessellation control and evaluation,
\* fragment, geometry.
StagesOf(v, g, tc, te, f) ==
    <<Stage("VERTEX", v)>>
    \o (IF useTessellationShader(tc, te)
        THEN <<Stage("TESS_CONTROL", tc), Stage("TESS_EVALUATION", te)>>
        ELSE <<>>)
    \o <<Stage("FRAGMENT", f)>>
    \o (IF useGeometryShader(g) THEN <<Stage("GEOMETRY", g)>> ELSE <<>>)

\* the stage of NewComputeProgram
ComputeStages(c) == <<Stage("COMPUTE", c)>>

EmptyRun == [handles |-> <<>>, created |-> {}, read |-> {}, compiled |-> {},
             status |-> <<>>, err |-> FALSE]

\* readFile + compileShader for stages i.. of the list, stopping at the
\* first error (the early returns of the source).  The result is the set of
\* runs the driver's COMPILE_STATUS answers allow.
RECURSIVE CompileStages(_, _, _, _)
CompileStages(stages, i, used, run) ==
    IF i > Len(stages) THEN {run}
    ELSE
      LET s == stages[i]
          file == readFile(s.name)
          didRead == [run EXCEPT !.read = @ \cup {s.kind}]
      IN
      IF file.err THEN {[didRead EXCEPT !.err = TRUE]}
      ELSE
        UNION {
          LET c == compileShader(file.source, status, used)
              didCompile == [didRead EXCEPT !.created = @ \cup {c.created},
                                            !.compiled = @ \cup {s.kind},
                                            !.status = Append(@, status)]
          IN
          IF c.err THEN {[didCompile EXCEPT !.err = TRUE]}
          ELSE CompileStages(stages, i + 1, used \cup {c.created},
                             [didCompile EXCEPT !.handles = Append(@, c.shader)])
          : status \in BOOLEAN }

Range(seq) == {seq[i] : i \in 1..Len(seq)}

UsedNames == shaders \cup DOMAIN programs

\* glDeleteShader for every compiled stage, the tail of both functions
DeleteShaders(live, handles) == live \ Range(handles)

\* what the two functions return after glLinkProgram
LinkResultKeepHandle(program, status) ==
    [handle |-> program, err |-> ~status]

LinkResult(program, status) ==
    IF ~status THEN [handle |-> 0, err |-> TRUE]
    ELSE [handle |-> program, err |-> FALSE]

\* Body shared by NewProgram and NewComputeProgram: compile the stages,
\* create the program, attach, link, read LINK_STATUS from the driver,
\* delete the stages.
BuildProgram(op, stages, names) ==
    \E run \in CompileStages(stages, 1, UsedNames, EmptyRun) :
    LET base == [op |-> op, names |-> names, created |-> run.created,
                 read |-> run.read, compiled |-> run.compiled,
                 compileStatus |-> run.status]
    IN
    IF run.err
    THEN /\ shaders' = shaders \cup run.created
         /\ programs' = programs
         /\ call' = base @@ [attached |-> <<>>, reachedLink |-> FALSE,
                             linkStatus |-> FALSE, program |-> 0,
                             handle |-> 0, err |-> TRUE]
    ELSE
      \E linkStatus \in BOOLEAN :
      LET program == NewName(UsedNames \cup run.created)
          res == LinkResult(program, linkStatus)
      IN
      /\ programs' = programs @@
             (program :> [attached |-> Range(run.handles), linked |-> linkStatus])
      /\ shaders' = IF ~linkStatus
                    THEN shaders \cup run.created
                    ELSE DeleteShaders(shaders \cup run.created, run.handles)
      /\ call' = base @@ [attached |-> [i \in 1..Len(stages) |-> stages[i].kind],
                          reachedLink |-> TRUE, linkStatus |-> linkStatus,
                          program |-> program,
                          handle |-> res.handle, err |-> res.err]

\* most stages one program has: vertex, two tessellation stages, fragment,
\* geometry
MaxStages == 5

\* The driver must have names left for every stage and the program.
NewProgram(v, g, tc, te, f) ==
    /\ Cardinality((1..MaxObj) \ UsedNames) > MaxStages
    /\ BuildProgram("NewProgram", StagesOf(v, g, tc, te, f),
                    [vertex |-> v, geometry |-> g, tessControl |-> tc,
                     tessEval |-> te, fragment |-> f, compute |-> ""])
    /\ UNCHANGED <<texVars, meshVars>>

NewComputeProgram(c) ==
    /\ Cardinality((1..MaxObj) \ UsedNames) > 1
    /\ BuildProgram("NewComputeProgram", ComputeStages(c),
                    [vertex |-> "", geometry |-> "", tessControl |-> "",
                     tessEval |-> "", fragment |-> "", compute |-> c])
    /\ UNCHANGED <<texVars, meshVars>>

NoCall == [op |-> "none"]

InitProgram ==
    /\ shaders = {}
    /\ programs = <<>>
    /\ call = NoCall

NextProgram ==
    \/ \E v, g, tc, te, f \in ShaderNames : NewProgram(v, g, tc, te, f)
    \/ \E c \in ShaderNames : NewComputeProgram(c)

\* ------------------------------------------------ textures, framebuffers
TexTargets == {"TEXTURE_2D", "TEXTURE_2D_MULTISAMPLE"}
InternalFormats == {"RGBA8", "RGBA32F", "RG32F", "DEPTH_COMPONENT32"}

\* a nil *uint32 argument
Nil == 0 - 1

\* parameters of a texture object the driver has just named (GL defaults)
FreshTexture ==
    [target |-> "none", wrapS |-> "REPEAT", wrapT |-> "REPEAT",
     minFilter |-> "NEAREST_MIPMAP_LINEAR", magFilter |-> "LINEAR",
     format |-> "none"]

\* texture 0 of the TEXTURE_2D target, which exists from context creation
DefaultTexture == [FreshTexture EXCEPT !.target = "TEXTURE_2D"]

\* texture state of the driver: the objects and the per-target bindings
TexState == [objs |-> textures, bound |-> texBinding]

glGenTexture(T, tex) == [T EXCEPT !.objs = @ @@ (tex :> FreshTexture)]

\* the first bind fixes the target of the object
glBindTexture(T, target, tex) ==
    [T EXCEPT !.bound[target] = tex,
              !.objs[tex].target = IF @ = "none" THEN target ELSE @]

\* glTexParameteri acts on the texture bound to the target it names
glTexParameteri(T, target, pname, value) ==
    [T EXCEPT !.objs[T.bound[target]][pname] = value]

glTexStorage(T, target, internalFormat) ==
    [T EXCEPT !.objs[T.bound[target]].format = internalFormat]

\* texType of CreateTexture, CreateLightFbo and CreateFbo
texTypeOf(multisampling) ==
    IF multisampling THEN "TEXTURE_2D_MULTISAMPLE" ELSE "TEXTURE_2D"

\* CreateTexture on driver state T, the driver naming the texture tex
CreateTextureOn(T, tex, internalFormat, multisampling) ==
    LET texType == texTypeOf(multisampling)
        t1 == glGenTexture(T, tex)
        t2 == glBindTexture(t1, texType, tex)
        t3 == glTexParameteri(t2, "TEXTURE_2D", "wrapS", "CLAMP_TO_EDGE")
        t4 == glTexParameteri(t3, "TEXTURE_2D", "wrapT", "CLAMP_TO_EDGE")
        t5 == glTexParameteri(t4, "TEXTURE_2D", "minFilter", "NEAREST")
        t6 == glTexParameteri(t5, "TEXTURE_2D", "magFilter", "NEAREST")
    IN glTexStorage(t6, texType, internalFormat)

\* CreateImageTexture after the image is decoded
CreateImageTextureOn(T, tex, isRepeating) ==
    LET textureWrap == IF isRepeating THEN "REPEAT" ELSE "CLAMP_TO_EDGE"
        t1 == glGenTexture(T, tex)
        t2 == glBindTexture(t1, "TEXTURE_2D", tex)
        t3 == glTexParameteri(t2, "TEXTURE_2D", "wrapS", textureWrap)
        t4 == glTexParameteri(t3, "TEXTURE_2D", "wrapT", textureWrap)
        t5 == glTexParameteri(t4, "TEXTURE_2D", "minFilter", "NEAREST")
        t6 == glTexParameteri(t5, "TEXTURE_2D", "magFilter", "NEAREST")
    IN glTexStorage(t6, "TEXTURE_2D", "RGBA8")

LiveTextures == DOMAIN textures \ {0}
FreeTextures == (1..MaxTex) \ LiveTextures
FreeFbos == (1..MaxFbo) \ DOMAIN fbos

NoAttachment == [textarget |-> "none", texture |-> 0]

\* glFramebufferTexture2D on the bound framebuffer; texture 0 detaches
glFramebufferTexture2D(F, bound, attachment, textarget, texture) ==
    [F EXCEPT ![bound][attachment] =
        IF texture = 0 THEN NoAttachment
        ELSE [textarget |-> textarget, texture |-> texture]]

FboAttachSwapped(F, fbo, colorTex, depthTex, texType) ==
    LET f1 == F @@ (fbo :> [color |-> NoAttachment, depth |-> NoAttachment])
        f2 == IF colorTex # Nil
              THEN glFramebufferTexture2D(f1, fbo, "color", texType, colorTex)
              ELSE f1
    IN IF colorTex # Nil
       THEN glFramebufferTexture2D(f2, fbo, "depth", texType, colorTex)
       ELSE f2

\* CreateFboWithExistingTextures on framebuffer objects F, the driver naming
\* the framebuffer fbo; colorTex and depthTex are Nil or the pointee's value
FboAttach(F, fbo, colorTex, depthTex, texType) ==
    LET f1 == F @@ (fbo :> [color |-> NoAttachment, depth |-> NoAttachment])
        f2 == IF colorTex # Nil
              THEN glFramebufferTexture2D(f1, fbo, "color", texType, colorTex)
              ELSE f1
    IN IF depthTex # Nil
       THEN glFramebufferTexture2D(f2, fbo, "depth", texType, depthTex)
       ELSE f2

TexCallRecord(op, multisampling, colorTex, depthTex, created, ret) ==
    [op |-> op, multisampling |-> multisampling, colorTex |-> colorTex,
     depthTex |-> depthTex, created |-> created, ret |-> ret,
     bound2DBefore |-> texBinding["TEXTURE_2D"]]

CreateTexture(internalFormat, multisampling) ==
    /\ FreeTextures # {}
    /\ LET tex == FirstFree(FreeTextures)
           T == CreateTextureOn(TexState, tex, internalFormat, multisampling)
       IN /\ textures' = T.objs
            /\ texBinding' = T.bound
            /\ texCall' = TexCallRecord("CreateTexture", multisampling,
                                        Nil, Nil, {tex}, tex)
    /\ UNCHANGED <<fbos, fboBinding, progVars, meshVars>>

CreateImageTexture(isRepeating) ==
    /\ FreeTextures # {}
    /\ LET tex == FirstFree(FreeTextures)
           T == CreateImageTextureOn(TexState, tex, isRepeating)
       IN /\ textures' = T.objs
            /\ texBinding' = T.bound
            /\ texCall' = TexCallRecord("CreateImageTexture", FALSE,
                                        Nil, Nil, {tex}, tex)
    /\ UNCHANGED <<fbos, fboBinding, progVars, meshVars>>

\* The caller passes nil or pointers to textures it created before, of the
\* target it names in texType.
ExistingTextures(texType) ==
    {t \in LiveTextures : textures[t].target = texType}

CreateFboWithExistingTextures(colorTex, depthTex, texType) ==
    /\ FreeFbos # {}
    /\ LET fbo == FirstFree(FreeFbos) IN
         /\ fbos' = FboAttach(fbos, fbo, colorTex, depthTex, texType)
         /\ texCall' = TexCallRecord("CreateFboWithExistingTextures",
                                     texType = "TEXTURE_2D_MULTISAMPLE",
                                     colorTex, depthTex, {}, fbo)
    /\ fboBinding' = 0
    /\ UNCHANGED <<textures, texBinding, progVars, meshVars>>

\* Body shared by CreateFbo and CreateLightFbo: the color texture, then the
\* depth texture, then CreateFboWithExistingTextures.  colorNil / depthNil
\* tell whether the pointer is nil; a non-nil pointee is overwritten.
CreateFboBody(op, colorNil, depthNil, colorFormat, multisampling) ==
    /\ FreeFbos # {}
    /\ Cardinality(FreeTextures) >=
           (IF colorNil THEN 0 ELSE 1) + (IF depthNil THEN 0 ELSE 1)
    /\ LET c == IF colorNil THEN Nil ELSE FirstFree(FreeTextures)
           d == IF depthNil THEN Nil ELSE FirstFree(FreeTextures \ {c})
           fbo == FirstFree(FreeFbos)
           T1 == IF colorNil THEN TexState
                 ELSE CreateTextureOn(TexState, c, colorFormat, multisampling)
           T2 == IF depthNil THEN T1
                 ELSE CreateTextureOn(T1, d, "DEPTH_COMPONENT32", multisampling)
       IN /\ textures' = T2.objs
          /\ texBinding' = T2.bound
          /\ fbos' = FboAttach(fbos, fbo, c, d, texTypeOf(multisampling))
          /\ fboBinding' = 0
          /\ texCall' = TexCallRecord(op, multisampling, c, d,
                                      {c, d} \ {Nil}, fbo)

CreateLightFbo(colorNil, depthNil, multisampling) ==
    /\ CreateFboBody("CreateLightFbo", colorNil, depthNil, "RG32F", multisampling)
    /\ UNCHANGED <<progVars, meshVars>>

CreateFbo(colorNil, depthNil, multisampling, isFloatingPoint) ==
    /\ CreateFboBody("CreateFbo", colorNil, depthNil,
                     IF isFloatingPoint THEN "RGBA32F" ELSE "RGBA8",
                     multisampling)
    /\ UNCHANGED <<progVars, meshVars>>

InitTexture ==
    /\ textures = (0 :> DefaultTexture)
    /\ texBinding = [t \in TexTargets |-> 0]
    /\ fbos = <<>>
    /\ fboBinding = 0
    /\ texCall = NoCall

NextTexture ==
    \/ \E fmt \in InternalFormats, ms \in BOOLEAN : CreateTexture(fmt, ms)
    \/ \E rep \in BOOLEAN : CreateImageTexture(rep)
    \/ \E texType \in TexTargets :
       \E c \in {Nil} \cup ExistingTextures(texType) :
       \E d \in {Nil} \cup ExistingTextures(texType) :
           CreateFboWithExistingTextures(c, d, texType)
    \/ \E cn, dn, ms \in BOOLEAN : CreateLightFbo(cn, dn, ms)
    \/ \E cn, dn, ms, fp \in BOOLEAN : CreateFbo(cn, dn, ms, fp)

\* ------------------------------------------------------------ mesh buffers
ZeroMeshBuffer ==
    [ArrayBuffer |-> 0, VertexBuffer |-> 0, VertexCount |-> 0,
     IndexBuffer |-> 0, IndexCount |-> 0]

\* buffer / vertex array state of the driver
MeshState == [buffers |-> buffers, vaos |-> vaos, bound |-> glBinding]

FreeBuffers == (1..MaxBuf) \ buffers
FreeVaos == (1..MaxVao) \ DOMAIN vaos

glGenBuffer(G, b) == [G EXCEPT !.buffers = @ \cup {b}]

glBindArrayBuffer(G, b) == [G EXCEPT !.bound.arrayBuffer = b]

glGenVertexArray(G, va) ==
    [G EXCEPT !.vaos = @ @@ (va :> [attrib0 |-> 0, element |-> 0])]

glBindVertexArray(G, va) == [G EXCEPT !.bound.vertexArray = va]

\* glVertexAttribPointer records the bound ARRAY_BUFFER in the bound
\* vertex array
glVertexAttribPointer(G) ==
    [G EXCEPT !.vaos[G.bound.vertexArray].attrib0 = G.bound.arrayBuffer]

\* the ELEMENT_ARRAY_BUFFER binding is state of the bound vertex array
glBindElementArrayBuffer(G, b) ==
    [G EXCEPT !.vaos[G.bound.vertexArray].element = b]

\* glDeleteBuffers ignores name 0 and names that are not buffers; a deleted
\* buffer is unbound from the context and from the bound vertex array
glDeleteBuffer(G, b) ==
    IF b \notin G.buffers THEN G
    ELSE
      LET va == G.bound.vertexArray
          g1 == [G EXCEPT !.buffers = @ \ {b},
                          !.bound.arrayBuffer = IF @ = b THEN 0 ELSE @]
      IN IF va \in DOMAIN g1.vaos
         THEN [g1 EXCEPT !.vaos[va].attrib0 = IF @ = b THEN 0 ELSE @,
                         !.vaos[va].element = IF @ = b THEN 0 ELSE @]
         ELSE g1

\* glDeleteVertexArrays ignores name 0; a deleted bound array is unbound
glDeleteVertexArray(G, va) ==
    IF va \notin DOMAIN G.vaos THEN G
    ELSE [G EXCEPT !.vaos = [x \in DOMAIN @ \ {va} |-> @[x]],
                   !.bound.vertexArray = IF @ = va THEN 0 ELSE @]

\* the part both Generate functions share: array buffer, vertex array,
\* attribute 0, then ARRAY_BUFFER is unbound
UploadPoints(G, ab, va) ==
    LET g1 == glBindArrayBuffer(glGenBuffer(G, ab), ab)
        g2 == glBindVertexArray(glGenVertexArray(g1, va), va)
        g3 == glVertexAttribPointer(g2)
    IN glBindArrayBuffer(g3, 0)

UploadIndices(G, ib) ==
    LET g1 == glBindElementArrayBuffer(glGenBuffer(G, ib), ib)
    IN glBindElementArrayBuffer(g1, 0)

MeshCallRecord(op, points, indices, generated, genVao) ==
    [op |-> op, points |-> points, indices |-> indices,
     generated |-> generated, genVao |-> genVao,
     freeRun |-> IF op = "FreeGLBuffer" /\ meshCall.op = "FreeGLBuffer"
                 THEN 2
                 ELSE IF op = "FreeGLBuffer" THEN 1 ELSE 0]

SetMeshState(G) ==
    /\ buffers' = G.buffers
    /\ vaos' = G.vaos
    /\ glBinding' = G.bound

TooFewTrianglePointsOffByOne(points) == points < 2

\* len(points) < 3: GenerateBufferFromTriangles2D returns at once
TooFewTrianglePoints(points) == points < 3

\* len(points) < 2 || len(indices) < 2: GenerateBufferFromLines2D returns
\* at once
TooFewLinePoints(points, indices) == points < 2 \/ indices < 2

TrianglesFieldsSwapped(m, ab, va, points) ==
    [m EXCEPT !.ArrayBuffer = va, !.VertexBuffer = ab, !.VertexCount = points,
              !.IndexCount = 0]

\* the fields GenerateBufferFromTriangles2D assigns
TrianglesFields(m, ab, va, points) ==
    [m EXCEPT !.ArrayBuffer = ab, !.VertexBuffer = va, !.VertexCount = points]

\* the fields GenerateBufferFromLines2D assigns
LinesFields(m, ab, va, ib, points, indices) ==
    [m EXCEPT !.ArrayBuffer = ab, !.VertexBuffer = va, !.VertexCount = points,
              !.IndexBuffer = ib, !.IndexCount = indices]

GenerateBufferFromTriangles2D(points) ==
    /\ IF TooFewTrianglePoints(points)
       THEN /\ UNCHANGED <<buffers, vaos, glBinding, mb>>
            /\ meshCall' = MeshCallRecord("GenerateBufferFromTriangles2D",
                                          points, 0, {}, 0)
       ELSE \E ab \in FreeBuffers : \E va \in FreeVaos :
            /\ SetMeshState(UploadPoints(MeshState, ab, va))
            /\ mb' = TrianglesFields(mb, ab, va, points)
            /\ meshCall' = MeshCallRecord("GenerateBufferFromTriangles2D",
                                          points, 0, {ab}, va)
    /\ UNCHANGED <<progVars, texVars>>

GenerateBufferFromLines2D(points, indices) ==
    /\ IF TooFewLinePoints(points, indices)
       THEN /\ UNCHANGED <<buffers, vaos, glBinding, mb>>
            /\ meshCall' = MeshCallRecord("GenerateBufferFromLines2D",
                                          points, indices, {}, 0)
       ELSE \E ab \in FreeBuffers : \E va \in FreeVaos :
            \E ib \in FreeBuffers \ {ab} :
            /\ SetMeshState(UploadIndices(UploadPoints(MeshState, ab, va), ib))
            /\ mb' = LinesFields(mb, ab, va, ib, points, indices)
            /\ meshCall' = MeshCallRecord("GenerateBufferFromLines2D",
                                          points, indices, {ab, ib}, va)
    /\ UNCHANGED <<progVars, texVars>>

\* FreeGLBuffer with the index branch taken only when the vertex branch is not
FreeOnElseIf(m, G) ==
    IF m.VertexCount > 0
    THEN [m |-> [m EXCEPT !.VertexCount = 0, !.ArrayBuffer = 0,
                          !.VertexBuffer = 0],
          G |-> glDeleteVertexArray(glDeleteBuffer(G, m.ArrayBuffer),
                                    m.VertexBuffer)]
    ELSE IF m.IndexCount > 0
    THEN [m |-> [m EXCEPT !.VertexCount = 0, !.IndexBuffer = 0],
          G |-> glDeleteBuffer(G, m.IndexBuffer)]
    ELSE [m |-> m, G |-> G]

\* FreeGLBuffer on MeshBuffer m and driver state G: the vertex branch, then
\* the index branch, which clears VertexCount a second time and leaves
\* IndexCount as it is
FreeOn(m, G) ==
    LET v == IF m.VertexCount > 0
             THEN [m |-> [m EXCEPT !.VertexCount = 0, !.ArrayBuffer = 0,
                                   !.VertexBuffer = 0],
                   G |-> glDeleteVertexArray(glDeleteBuffer(G, m.ArrayBuffer),
                                             m.VertexBuffer)]
             ELSE [m |-> m, G |-> G]
    IN IF v.m.IndexCount > 0
       THEN [m |-> [v.m EXCEPT !.VertexCount = 0, !.IndexBuffer = 0],
             G |-> glDeleteBuffer(v.G, v.m.IndexBuffer)]
       ELSE v

FreeGLBuffer ==
    /\ LET r == FreeOn(mb, MeshState)
       IN /\ mb' = r.m
          /\ SetMeshState(r.G)
    /\ meshCall' = [MeshCallRecord("FreeGLBuffer", 0, 0, {}, 0)
                       EXCEPT !.generated = IF meshCall.op = "none" THEN {}
                                            ELSE meshCall.generated,
                              !.genVao = IF meshCall.op = "none" THEN 0
                                         ELSE meshCall.genVao]
    /\ UNCHANGED <<progVars, texVars>>

InitMesh ==
    /\ buffers = {}
    /\ vaos = <<>>
    /\ glBinding = [arrayBuffer |-> 0, vertexArray |-> 0]
    /\ mb = ZeroMeshBuffer
    /\ meshCall = NoCall

NextMesh ==
    \/ \E points \in 0..MaxPoints : GenerateBufferFromTriangles2D(points)
    \/ \E points \in 0..MaxPoints, indices \in 0..MaxIndices :
           GenerateBufferFromLines2D(points, indices)
    \/ FreeGLBuffer

\* ---------------------------------------------------------- specifications
Init == InitProgram /\ InitTexture /\ InitMesh

Next == NextProgram \/ NextTexture \/ NextMesh

Spec == Init /\ [][Next]_vars

SpecProgram == Init /\ [][NextProgram]_vars

SpecTexture == Init /\ [][NextTexture]_vars

SpecMesh == Init /\ [][NextMesh]_vars

\* ------------------------------------------------------------------ claims
ProgramOps == {"NewProgram", "NewComputeProgram"}
TessKinds == {"TESS_CONTROL", "TESS_EVALUATION"}

\* the file name the last call was given for a stage
StageName(kind) ==
    CASE kind = "VERTEX" -> call.names.vertex
      [] kind = "TESS_CONTROL" -> call.names.tessControl
      [] kind = "TESS_EVALUATION" -> call.names.tessEval
      [] kind = "FRAGMENT" -> call.names.fragment
      [] kind = "GEOMETRY" -> call.names.geometry
      [] kind = "COMPUTE" -> call.names.compute

\* C1: when NewProgram or NewComputeProgram has returned, on every path, no
\* shader object the call created is still alive.
C1_CreatedShadersReleased ==
    call.op \in ProgramOps => call.created \cap shaders = {}

\* C2 as stated: a NewProgram call that reaches the link step has attached
\* at least 2 and at most 4 stage objects.
C2_AttachedTwoToFour ==
    (call.op = "NewProgram" /\ call.reachedLink) =>
        Cardinality(programs[call.program].attached) \in 2..4

\* C2 amended: a NewProgram call that reaches the link step has attached at
\* least 2 and at most 5 stage objects.
C2_AttachedTwoToFive ==
    (call.op = "NewProgram" /\ call.reachedLink) =>
        /\ Cardinality(programs[call.program].attached) \in 2..5
        /\ Len(call.attached) = Cardinality(programs[call.program].attached)

C2_Witness ==
    /\ call.op = "NewProgram"
    /\ call.reachedLink
    /\ call.names.geometry # ""
    /\ call.names.tessControl # ""
    /\ call.names.tessEval # ""
    /\ Cardinality(programs[call.program].attached) = 5

C8_TessBothOrNeither ==
    call.op = "NewProgram" =>
        LET tc == call.names.tessControl
            te == call.names.tessEval
            both == tc # "" /\ te # ""
            one == (tc # "") # (te # "")
            touched == TessKinds \cap
                         (call.read \cup call.compiled \cup Range(call.attached))
        IN /\ touched # {} => both
           /\ (both /\ call.reachedLink) => TessKinds \subseteq Range(call.attached)
           /\ (/\ one
               /\ call.names.vertex \in ExistingFiles
               /\ call.names.fragment \in ExistingFiles
               /\ call.names.geometry \in ExistingFiles \cup {""}
               /\ FALSE \notin Range(call.compileStatus)
               /\ call.reachedLink => call.linkStatus)
              => (~call.err /\ touched = {})

C8_Witness ==
    /\ call.op = "NewProgram"
    /\ call.names.tessControl = "missing.glsl"
    /\ call.names.tessEval = ""
    /\ call.reachedLink
    /\ ~call.err
    /\ call.read = {"VERTEX", "FRAGMENT"}

FixedParameters(t) ==
    /\ t.wrapS = "CLAMP_TO_EDGE"
    /\ t.wrapT = "CLAMP_TO_EDGE"
    /\ t.minFilter = "NEAREST"
    /\ t.magFilter = "NEAREST"

\* C4: for multisampling false and true, the wrap and filter parameters
\* CreateTexture sets are those of the texture it creates and returns.
C4_ParametersOnCreatedTexture ==
    texCall.op = "CreateTexture" => FixedParameters(textures[texCall.ret])

FboOps == {"CreateFbo", "CreateLightFbo", "CreateFboWithExistingTextures"}

C5_FreeZeroesEverything ==
    (meshCall.op = "FreeGLBuffer" /\ meshCall.freeRun = 1
        /\ meshCall.generated # {}) =>
        /\ meshCall.generated \cap buffers = {}
        /\ meshCall.genVao \notin DOMAIN vaos
        /\ mb = ZeroMeshBuffer

\* C6: GenerateBufferFromTriangles2D with at least 3 points sets VertexCount
\* to the number of points and leaves IndexBuffer and IndexCount;
\* GenerateBufferFromLines2D with at least 2 points and 2 indices sets
\* VertexCount and IndexCount to the two lengths; both store the newly
\* generated handles in ArrayBuffer and VertexBuffer.
C6_GenerateRecordsCounts ==
    [][LET newHandles == /\ mb'.ArrayBuffer \in buffers' \ buffers
                         /\ mb'.VertexBuffer \in DOMAIN vaos' \ DOMAIN vaos
       IN /\ (meshCall'.op = "GenerateBufferFromTriangles2D"
                 /\ meshCall'.points >= 3) =>
                /\ mb'.VertexCount = meshCall'.points
                /\ mb'.IndexBuffer = mb.IndexBuffer
                /\ mb'.IndexCount = mb.IndexCount
                /\ newHandles
          /\ (meshCall'.op = "GenerateBufferFromLines2D"
                 /\ meshCall'.points >= 2 /\ meshCall'.indices >= 2) =>
                /\ mb'.VertexCount = meshCall'.points
                /\ mb'.IndexCount = meshCall'.indices
                /\ newHandles
    ]_vars

C6_Witness ==
    /\ meshCall.op = "GenerateBufferFromTriangles2D"
    /\ meshCall.points >= 3
    /\ mb.VertexCount = meshCall.points
    /\ mb.IndexCount > 0
    /\ mb.ArrayBuffer \in meshCall.generated

\* C9: a second consecutive FreeGLBuffer call leaves every field of the
\* MeshBuffer and the live GPU objects as the first call left them.
C9_FreeIdempotent ==
    [][(meshCall.op = "FreeGLBuffer" /\ meshCall'.op = "FreeGLBuffer") =>
          UNCHANGED <<mb, buffers, vaos, glBinding>>]_vars

C9_Witness ==
    /\ meshCall.op = "FreeGLBuffer"
    /\ meshCall.freeRun = 2
    /\ mb.IndexCount > 0

\* C10: a Generate call with too few points (or indices) creates no GPU
\* object, changes no binding and leaves the MeshBuffer unchanged.
C10_ShortInputNoEffect ==
    [][(\/ (meshCall'.op = "GenerateBufferFromTriangles2D"
               /\ meshCall'.points < 3)
        \/ (meshCall'.op = "GenerateBufferFromLines2D"
               /\ (meshCall'.points < 2 \/ meshCall'.indices < 2))) =>
          UNCHANGED <<mb, buffers, vaos, glBinding>>]_vars

C10_Witness ==
    /\ meshCall.op = "GenerateBufferFromTriangles2D"
    /\ meshCall.points = 2
    /\ mb.VertexCount > 0
    /\ glBinding.vertexArray # 0

====
